---------------------------- MODULE Spec2Model ----------------------------
(***************************************************************************)
(* A model of tuxpad (src/main.rs): the windowed LineBuffer, the Editor's  *)
(* edit and cursor operations, and the modal key handlers.                 *)
(*                                                                         *)
(* Text is a sequence of one-character strings; a store's content is such  *)
(* a sequence with "\n" (and "\r") as ordinary characters, so that reading *)
(* (BufRead::lines) and writing (write!/writeln!) are real conversions.    *)
(* The program's size constants are kept by name and scaled down to the    *)
(* bounds below.  A value computed by a read or a reload is handed to a    *)
(* continuation operator (the code after the call) instead of being named  *)
(* in a LET and used many times.                                           *)
(***************************************************************************)
EXTENDS Integers, Sequences, FiniteSets, TLC

VARIABLES
    ed,     \* the Editor aggregate (struct Editor, with its LineBuffer and Cursor)
    fs,     \* the file system: a function from the existing paths to their content
    run,    \* "running" | "exited" (Ok(false) or process::exit) | "panicked"
    last,   \* the last key event processed and the mode it was dispatched in
    snap,   \* the state before the event that preceded the last one, when kept
    before, \* the state before the last event, when kept
    steps   \* number of key events processed so far

vars == <<ed, fs, run, last, snap, before, steps>>

---------------------------------------------------------------------------
(* Bounds of the model *)

\* number of key events explored
MaxSteps == 4
\* window capacity used for MAX_VISIBLE_LINES (1000 in the source)
MaxWindow == 3
\* line length used for MAX_LINE_LENGTH (10000 in the source)
MaxLineLen == 3
\* undo log capacity used for the literal 50 of save_undo_state
MaxUndo == 2
\* length used for the literal 100 that caps the command/search/replace buffers
MaxBuf == 3
\* match count used for the literal 100 of search
MaxMatches == 2

\* lines moved by PageUp / PageDown (the literal 20 of the source)
MaxPage == 1

MAX_LINE_LENGTH == MaxLineLen
MAX_VISIBLE_LINES == MaxWindow
UNDO_LIMIT == MaxUndo
INPUT_LIMIT == MaxBuf
MATCH_LIMIT == MaxMatches
PAGE_LINES == MaxPage

---------------------------------------------------------------------------
(* Text helpers: what the std String operations used by the source do *)

Min(a, b) == IF a < b THEN a ELSE b
Max(a, b) == IF a > b THEN a ELSE b

\* usize::saturating_sub
SatSub(a, b) == IF a > b THEN a - b ELSE 0

\* s[..n] for n <= len, and String::truncate(n)
Take(s, n) == SubSeq(s, 1, Min(n, Len(s)))

\* s[n..] (0-based n <= len)
Drop(s, n) == SubSeq(s, n + 1, Len(s))

\* String::insert(pos, c), 0-based pos <= len
StrInsert(s, pos, c) == Take(s, pos) \o <<c>> \o Drop(s, pos)

\* String::remove(pos), 0-based pos < len
StrRemove(s, pos) == Take(s, pos) \o Drop(s, pos + 1)

\* VecDeque::insert(i, v), 0-based i <= len
SeqInsert(q, i, v) == SubSeq(q, 1, i) \o <<v>> \o SubSeq(q, i + 1, Len(q))

\* VecDeque::remove(i), 0-based i < len
SeqRemove(q, i) == SubSeq(q, 1, i) \o SubSeq(q, i + 2, Len(q))

\* whether pat occurs in s at 0-based offset i
MatchAt(s, i, pat) ==
    /\ i + Len(pat) <= Len(s)
    /\ \A k \in 1..Len(pat) : s[i + k] = pat[k]

\* str::find on s[start..]: the least offset (relative to start) of pat, or -1
FindFrom(s, start, pat) ==
    LET hits == {i \in start..Len(s) : MatchAt(s, i, pat)}
    IN  IF hits = {} THEN -1
        ELSE (CHOOSE i \in hits : \A j \in hits : i <= j) - start

\* str::replace: every non-overlapping occurrence, left to right (pat non-empty)
RECURSIVE StrReplace(_, _, _)
StrReplace(s, pat, rep) ==
    LET p == FindFrom(s, 0, pat)
    IN  IF p < 0 THEN s
        ELSE Take(s, p) \o rep \o StrReplace(Drop(s, p + Len(pat)), pat, rep)

\* str::matches(pat).count(): the non-overlapping occurrences (pat non-empty)
RECURSIVE MatchCount(_, _)
MatchCount(s, pat) ==
    LET p == FindFrom(s, 0, pat)
    IN  IF p < 0 THEN 0 ELSE 1 + MatchCount(Drop(s, p + Len(pat)), pat)

\* str::trim, for the blank character the model types
RECURSIVE TrimStart(_)
TrimStart(s) == IF s # <<>> /\ Head(s) = " " THEN TrimStart(Tail(s)) ELSE s
RECURSIVE TrimEnd(_)
TrimEnd(s) == IF s # <<>> /\ s[Len(s)] = " " THEN TrimEnd(Take(s, Len(s) - 1)) ELSE s
Trim(s) == TrimEnd(TrimStart(s))

---------------------------------------------------------------------------
(* The store: reading and writing lines *)

\* a line read by BufRead::lines, without a "\r" that stood before its "\n"
StripCr(raw) ==
    IF raw # <<>> /\ raw[Len(raw)] = "\r" THEN Take(raw, Len(raw) - 1) ELSE raw

\* BufRead::lines: split at "\n", dropping the "\n" and a "\r" right before it;
\* a final piece without "\n" is a line if it is not empty
RECURSIVE ReadLines(_)
RECURSIVE SplitAtNewline(_, _)
SplitAtNewline(content, nl) ==
    IF nl < 0 THEN <<content>>
    ELSE <<StripCr(Take(content, nl))>> \o ReadLines(Drop(content, nl + 1))
ReadLines(content) ==
    IF content = <<>> THEN <<>>
    ELSE SplitAtNewline(content, FindFrom(content, 0, <<"\n">>))

\* writeln!(writer, "{}", line) for every line
RECURSIVE WriteAllLn(_)
WriteAllLn(lines) ==
    IF lines = <<>> THEN <<>>
    ELSE Head(lines) \o <<"\n">> \o WriteAllLn(Tail(lines))

\* writeln! for every line but the last, write! for the last
RECURSIVE WriteJoined(_)
WriteJoined(lines) ==
    IF lines = <<>> THEN <<>>
    ELSE IF Len(lines) = 1 THEN Head(lines)
    ELSE Head(lines) \o <<"\n">> \o WriteJoined(Tail(lines))

\* Option<PathBuf>: None, and Some(path)
NoFile == <<>>
Some(path) == <<path>>

\* Path::exists
Exists(fsys, path) == path \in DOMAIN fsys

\* File::create fails for the empty path, and when the environment refuses the write
CanCreate(path, io) == path # <<>> /\ io # "write_error"

\* io::Result of an operation on the Editor: Ok(()) and Err(e)
Ok(e) == [ok |-> TRUE, e |-> e]
Err(e) == [ok |-> FALSE, e |-> e]

---------------------------------------------------------------------------
(* LineBuffer *)

\* LineBuffer::new (max_lines is the constant MAX_VISIBLE_LINES)
NewLineBuffer == [lines |-> <<>>, start_line_number |-> 0, total_lines |-> 0]

\* the window load_chunk produces for a missing or empty store
OneEmptyLine == [lines |-> << <<>> >>, start_line_number |-> 0, total_lines |-> 1]

\* what load_chunk and insert_line keep of a line: line[..MAX_LINE_LENGTH] if longer
Truncated(line) == IF Len(line) > MAX_LINE_LENGTH THEN Take(line, MAX_LINE_LENGTH) ELSE line

\* load_chunk from actual_start on: the loop over actual_start..end
FillFrom(all_lines, actual_start) ==
    LET end == Min(actual_start + MAX_VISIBLE_LINES, Len(all_lines))
    IN  [lines |-> [i \in 1..(end - actual_start) |-> Truncated(all_lines[actual_start + i])],
         start_line_number |-> actual_start,
         total_lines |-> Len(all_lines)]

\* a faulty variant of load_chunk's filling: the start is not clamped into the
\* store's lines
FillWindowUnclamped(all_lines, start_line) ==
    IF all_lines = <<>> THEN OneEmptyLine
    ELSE FillFrom(all_lines, start_line)

\* load_chunk once the store has been read into all_lines
FillWindow(all_lines, start_line) ==
    IF all_lines = <<>> THEN OneEmptyLine
    ELSE FillFrom(all_lines, Min(start_line, SatSub(Len(all_lines), 1)))

\* LineBuffer::load_chunk: [ok, buf]
LoadChunk(buf, fsys, path, start_line, io) ==
    IF ~Exists(fsys, path) THEN [ok |-> TRUE, buf |-> OneEmptyLine]
    ELSE IF io = "read_error" THEN [ok |-> FALSE, buf |-> [buf EXCEPT !.lines = <<>>]]
    ELSE [ok |-> TRUE, buf |-> FillWindow(ReadLines(fsys[path]), start_line)]

\* the guard of get_line / get_line_mut / remove_line
Resident(buf, index) ==
    index >= buf.start_line_number /\ index < buf.start_line_number + Len(buf.lines)

\* LineBuffer::get_line, for a resident index
GetLine(buf, index) == buf.lines[index - buf.start_line_number + 1]

\* the assignment through get_line_mut, for a resident index
SetLine(buf, index, content) ==
    [buf EXCEPT !.lines[index - buf.start_line_number + 1] = content]

\* a faulty variant of the pop_back of insert_line: nothing is evicted
KeepAll(lines) == lines

\* the pop_back of insert_line
KeepManageable(lines) ==
    IF Len(lines) > MAX_VISIBLE_LINES THEN Take(lines, Len(lines) - 1) ELSE lines

\* a faulty variant of insert_line: total_lines is not incremented
InsertLineUncounted(buf, index, content) ==
    IF index >= buf.start_line_number /\ index <= buf.start_line_number + Len(buf.lines)
    THEN [buf EXCEPT !.lines = KeepManageable(SeqInsert(buf.lines,
                                                        index - buf.start_line_number,
                                                        Truncated(content)))]
    ELSE buf

\* LineBuffer::insert_line
InsertLine(buf, index, content) ==
    IF index >= buf.start_line_number /\ index <= buf.start_line_number + Len(buf.lines)
    THEN [buf EXCEPT !.lines = KeepManageable(SeqInsert(buf.lines,
                                                        index - buf.start_line_number,
                                                        Truncated(content))),
                     !.total_lines = @ + 1]
    ELSE buf

\* the total_lines remove_line leaves: saturating_sub(1), and 1 instead of 0
DecrementTotal(total_lines) ==
    IF SatSub(total_lines, 1) = 0 THEN 1 ELSE SatSub(total_lines, 1)

\* LineBuffer::remove_line
RemoveLine(buf, index) ==
    IF Resident(buf, index)
    THEN [buf EXCEPT !.total_lines = DecrementTotal(@),
                     !.lines = SeqRemove(buf.lines, index - buf.start_line_number)]
    ELSE buf

---------------------------------------------------------------------------
(* Editor: construction, load and save *)

\* Editor::new (the rendering fields syntax_set, theme, show_line_numbers,
\* show_help, offset_y and the throttle clock last_operation are left out)
NewEditor ==
    [buffer |-> NewLineBuffer,
     cursor |-> [x |-> 0, y |-> 0],
     mode |-> "Normal",
     filename |-> NoFile,
     modified |-> FALSE,
     status_message |-> "TuxPad - Press F1 for help | ESC for normal mode",
     command_buffer |-> <<>>,
     search_query |-> <<>>,
     replace_query |-> <<>>,
     replace_with |-> <<>>,
     clipboard |-> <<>>,
     undo_buffer |-> <<>>,
     quit_requested |-> FALSE,
     needs_reload |-> FALSE]

\* load_file after its load_chunk returned r
FileLoaded(e, path, r) ==
    IF ~r.ok THEN Err([e EXCEPT !.buffer = r.buf])
    ELSE Ok([e EXCEPT !.buffer = r.buf,
                      !.filename = Some(path),
                      !.cursor = [x |-> 0, y |-> 0],
                      !.modified = FALSE,
                      !.status_message = "Loaded"])

\* Editor::load_file: [ok, e]
LoadFile(e, fsys, path, io) == FileLoaded(e, path, LoadChunk(e.buffer, fsys, path, 0, io))

\* the bytes save_file writes for the window
SavedContent(buf) ==
    IF buf.total_lines > MAX_VISIBLE_LINES
    THEN WriteAllLn(buf.lines)
    ELSE WriteJoined(buf.lines)

\* the file system after File::create(path) and the writes of content
WriteFile(fsys, path, content) ==
    [p \in DOMAIN fsys \cup {path} |-> IF p = path THEN content ELSE fsys[p]]

\* Editor::save_file: [ok, e, fs]
SaveFile(e, fsys, io) ==
    IF e.filename # NoFile
    THEN IF ~CanCreate(e.filename[1], io)
         THEN [ok |-> FALSE, e |-> e, fs |-> fsys]
         ELSE [ok |-> TRUE,
               e |-> [e EXCEPT !.modified = FALSE, !.status_message = "Saved"],
               fs |-> WriteFile(fsys, e.filename[1], SavedContent(e.buffer))]
    ELSE [ok |-> TRUE,
          e |-> [e EXCEPT !.status_message =
                              "No filename specified. Use :w filename to save"],
          fs |-> fsys]

\* the pop_front of save_undo_state
KeepRecent(undo) == IF Len(undo) > UNDO_LIMIT THEN Tail(undo) ELSE undo

\* Editor::save_undo_state
SaveUndoState(e) ==
    IF Resident(e.buffer, e.cursor.y)
    THEN [e EXCEPT !.undo_buffer = KeepRecent(Append(@, GetLine(e.buffer, e.cursor.y)))]
    ELSE e

\* reload_current_chunk after its load_chunk returned r
ChunkLoaded(e, r) == [ok |-> r.ok, e |-> [e EXCEPT !.buffer = r.buf]]

\* Editor::reload_current_chunk: [ok, e]
ReloadCurrentChunk(e, fsys, io) ==
    IF e.filename # NoFile
    THEN ChunkLoaded(e, LoadChunk(e.buffer, fsys, e.filename[1],
                                  SatSub(e.cursor.y, MAX_VISIBLE_LINES \div 2), io))
    ELSE Ok(e)

---------------------------------------------------------------------------
(* Editor: the edit operations *)

\* a faulty variant of the insertion of insert_char: the cursor is not advanced
PutCharInPlace(e, c) ==
    LET line == GetLine(e.buffer, e.cursor.y)
        insert_pos == Min(e.cursor.x, Len(line))
    IN  [e EXCEPT !.buffer = SetLine(e.buffer, e.cursor.y, StrInsert(line, insert_pos, c)),
                  !.cursor.x = insert_pos,
                  !.modified = TRUE]

\* the insertion both branches of insert_char perform on a resident line
\* shorter than the maximum: at min(cursor.x, len), the cursor put after it
PutChar(e, c) ==
    LET line == GetLine(e.buffer, e.cursor.y)
        insert_pos == Min(e.cursor.x, Len(line))
    IN  [e EXCEPT !.buffer = SetLine(e.buffer, e.cursor.y, StrInsert(line, insert_pos, c)),
                  !.cursor.x = insert_pos + 1,
                  !.modified = TRUE]

\* whether the cursor's line is resident and shorter than the maximum
HasRoom(e) ==
    Resident(e.buffer, e.cursor.y) /\ Len(GetLine(e.buffer, e.cursor.y)) < MAX_LINE_LENGTH

\* the else branch of insert_char, after its reload returned r
InsertAfterReload(r, c) ==
    IF ~r.ok THEN r
    ELSE IF HasRoom(r.e) THEN Ok(PutChar(r.e, c))
    ELSE r

\* insert_char after save_undo_state
InsertCharAt(u, c, fsys, io) ==
    IF Resident(u.buffer, u.cursor.y)
    THEN IF HasRoom(u) THEN Ok(PutChar(u, c))
         ELSE Ok([u EXCEPT !.status_message = "Line too long"])
    ELSE InsertAfterReload(ReloadCurrentChunk(u, fsys, io), c)

\* Editor::insert_char: [ok, e]
InsertChar(e, c, fsys, io) == InsertCharAt(SaveUndoState(e), c, fsys, io)

\* the first branch of delete_char (cursor.x > 0), after save_undo_state
DeleteBefore(u) ==
    IF Resident(u.buffer, u.cursor.y)
    THEN LET line == GetLine(u.buffer, u.cursor.y)
         IN  IF u.cursor.x <= Len(line) /\ line # <<>>
             THEN [u EXCEPT !.buffer = SetLine(u.buffer, u.cursor.y,
                                               StrRemove(line, u.cursor.x - 1)),
                            !.cursor.x = @ - 1,
                            !.modified = TRUE]
             ELSE u
    ELSE u

\* a faulty variant of the join of delete_char: the cursor goes to the start
\* of the joined line
JoinAtColumnZero(u) ==
    IF Resident(u.buffer, u.cursor.y) /\ Resident(u.buffer, u.cursor.y - 1)
    THEN LET current_line == GetLine(u.buffer, u.cursor.y)
             prev_line == GetLine(u.buffer, u.cursor.y - 1)
         IN  IF Len(prev_line) + Len(current_line) < MAX_LINE_LENGTH
             THEN [u EXCEPT
                     !.buffer = RemoveLine(SetLine(u.buffer, u.cursor.y - 1,
                                                   prev_line \o current_line),
                                           u.cursor.y),
                     !.cursor = [x |-> 0, y |-> u.cursor.y - 1],
                     !.modified = TRUE]
             ELSE [u EXCEPT !.status_message =
                                "Cannot join: resulting line would be too long"]
    ELSE u

\* a faulty variant of the join of delete_char: a combined length equal to the
\* maximum is accepted
JoinUpToMaximum(u) ==
    IF Resident(u.buffer, u.cursor.y) /\ Resident(u.buffer, u.cursor.y - 1)
    THEN LET current_line == GetLine(u.buffer, u.cursor.y)
             prev_line == GetLine(u.buffer, u.cursor.y - 1)
         IN  IF Len(prev_line) + Len(current_line) <= MAX_LINE_LENGTH
             THEN [u EXCEPT
                     !.buffer = RemoveLine(SetLine(u.buffer, u.cursor.y - 1,
                                                   prev_line \o current_line),
                                           u.cursor.y),
                     !.cursor = [x |-> Len(prev_line), y |-> u.cursor.y - 1],
                     !.modified = TRUE]
             ELSE [u EXCEPT !.status_message =
                                "Cannot join: resulting line would be too long"]
    ELSE u

\* the second branch of delete_char (cursor.x = 0, cursor.y > 0), after
\* save_undo_state: the join with the previous line
JoinWithPrevious(u) ==
    IF Resident(u.buffer, u.cursor.y) /\ Resident(u.buffer, u.cursor.y - 1)
    THEN LET current_line == GetLine(u.buffer, u.cursor.y)
             prev_line == GetLine(u.buffer, u.cursor.y - 1)
         IN  IF Len(prev_line) + Len(current_line) < MAX_LINE_LENGTH
             THEN [u EXCEPT
                     !.buffer = RemoveLine(SetLine(u.buffer, u.cursor.y - 1,
                                                   prev_line \o current_line),
                                           u.cursor.y),
                     !.cursor = [x |-> Len(prev_line), y |-> u.cursor.y - 1],
                     !.modified = TRUE]
             ELSE [u EXCEPT !.status_message =
                                "Cannot join: resulting line would be too long"]
    ELSE u

\* Editor::delete_char (it returns Ok in every branch)
DeleteChar(e) ==
    IF e.cursor.x > 0 THEN DeleteBefore(SaveUndoState(e))
    ELSE IF e.cursor.y > 0 THEN JoinWithPrevious(SaveUndoState(e))
    ELSE e

\* insert_newline after save_undo_state
SplitLine(u) ==
    IF Resident(u.buffer, u.cursor.y)
    THEN LET current_line == GetLine(u.buffer, u.cursor.y)
             split_pos == Min(u.cursor.x, Len(current_line))
         IN  [u EXCEPT !.buffer = InsertLine(SetLine(u.buffer, u.cursor.y,
                                                     Take(current_line, split_pos)),
                                             u.cursor.y + 1,
                                             Drop(current_line, split_pos)),
                       !.cursor = [x |-> 0, y |-> u.cursor.y + 1],
                       !.modified = TRUE]
    ELSE u

\* Editor::insert_newline (it returns Ok in every branch)
InsertNewline(e) == SplitLine(SaveUndoState(e))

\* the column bound move_cursor applies: line_len in Insert mode,
\* line_len.saturating_sub(1).max(0) otherwise
ColumnLimit(mode, line_len) ==
    IF mode = "Insert" THEN line_len ELSE Max(SatSub(line_len, 1), 0)

\* the horizontal part of move_cursor
MoveHorizontal(e, dx, dy) ==
    IF Resident(e.buffer, e.cursor.y)
    THEN LET line_len == Len(GetLine(e.buffer, e.cursor.y))
         IN  IF dx # 0
             THEN [e EXCEPT !.cursor.x = Min(Max(e.cursor.x + dx, 0),
                                             ColumnLimit(e.mode, line_len))]
             ELSE IF dy # 0
             THEN [e EXCEPT !.cursor.x = Min(e.cursor.x, ColumnLimit(e.mode, line_len))]
             ELSE e
    ELSE [e EXCEPT !.cursor.x = 0]

\* move_cursor after the reload of its vertical part returned r
MoveAfterReload(r, dx, dy) ==
    IF ~r.ok THEN r ELSE Ok(MoveHorizontal(r.e, dx, dy))

\* the line move_cursor moves to: clamped into [0, total_lines - 1]
TargetLine(e, dy) == Min(Max(e.cursor.y + dy, 0), SatSub(e.buffer.total_lines, 1))

\* move_cursor with cursor.y already moved
MoveFrom(m, dx, dy, fsys, io) ==
    IF ~Resident(m.buffer, m.cursor.y)
    THEN MoveAfterReload(ReloadCurrentChunk(m, fsys, io), dx, dy)
    ELSE Ok(MoveHorizontal(m, dx, dy))

\* Editor::move_cursor: [ok, e]
MoveCursor(e, dx, dy, fsys, io) ==
    IF dy # 0
    THEN MoveFrom([e EXCEPT !.cursor.y = TargetLine(e, dy)], dx, dy, fsys, io)
    ELSE Ok(MoveHorizontal(e, dx, dy))

\* Editor::copy_line
CopyLine(e) ==
    IF Resident(e.buffer, e.cursor.y)
    THEN [e EXCEPT !.clipboard = GetLine(e.buffer, e.cursor.y),
                   !.status_message = "Line copied"]
    ELSE e

\* the re-seeding branch of cut_line
Reseeded(buf) ==
    IF buf.total_lines = 0
    THEN [buf EXCEPT !.lines = Append(@, <<>>), !.total_lines = 1]
    ELSE buf

\* the cursor line cut_line leaves
ClampedLine(y, total_lines) == IF y >= total_lines THEN SatSub(total_lines, 1) ELSE y

\* cut_line once the line is removed: buf is the buffer after remove_line
\* and the re-seeding
AfterCut(u, line, buf) ==
    [u EXCEPT !.clipboard = line,
              !.buffer = buf,
              !.cursor = [x |-> 0, y |-> ClampedLine(u.cursor.y, buf.total_lines)],
              !.modified = TRUE,
              !.status_message = "Line cut"]

\* Editor::cut_line (it returns Ok in every branch)
CutLine(e) ==
    IF Resident(e.buffer, e.cursor.y)
    THEN AfterCut(SaveUndoState(e), GetLine(e.buffer, e.cursor.y),
                  Reseeded(RemoveLine(e.buffer, e.cursor.y)))
    ELSE e

\* a faulty variant of paste_line: the clipboard goes before the cursor's line
PasteBefore(u) ==
    [u EXCEPT !.buffer = InsertLine(u.buffer, u.cursor.y, u.clipboard),
              !.cursor = [x |-> 0, y |-> u.cursor.y],
              !.modified = TRUE,
              !.status_message = "Line pasted"]

\* paste_line after save_undo_state
PasteAfter(u) ==
    [u EXCEPT !.buffer = InsertLine(u.buffer, u.cursor.y + 1, u.clipboard),
              !.cursor = [x |-> 0, y |-> u.cursor.y + 1],
              !.modified = TRUE,
              !.status_message = "Line pasted"]

\* Editor::paste_line (it returns Ok in every branch)
PasteLine(e) == IF e.clipboard # <<>> THEN PasteAfter(SaveUndoState(e)) ELSE e

\* the scan of one line in search: [panic, matches]. line[start..] panics when
\* start exceeds the length, which the empty query reaches (find("") is Some(0))
RECURSIVE ScanLine(_, _, _, _, _)
RECURSIVE ScanFound(_, _, _, _, _)
ScanFound(line, line_idx, at, found, query) ==
    IF Len(found) > MATCH_LIMIT THEN [panic |-> FALSE, matches |-> found]
    ELSE ScanLine(line, line_idx, at + 1, found, query)
ScanLine(line, line_idx, start, matches, query) ==
    IF start > Len(line) THEN [panic |-> TRUE, matches |-> matches]
    ELSE LET pos == FindFrom(line, start, query)
         IN  IF pos < 0 THEN [panic |-> FALSE, matches |-> matches]
             ELSE ScanFound(line, line_idx, start + pos,
                            Append(matches, <<line_idx, start + pos>>), query)

\* the loop of search over the window, from local index local_idx on
RECURSIVE ScanWindow(_, _, _, _)
RECURSIVE ScanNext(_, _, _, _)
ScanNext(buf, local_idx, r, query) ==
    IF r.panic \/ Len(r.matches) > MATCH_LIMIT THEN r
    ELSE ScanWindow(buf, local_idx + 1, r.matches, query)
ScanWindow(buf, local_idx, matches, query) ==
    IF local_idx >= Len(buf.lines) THEN [panic |-> FALSE, matches |-> matches]
    ELSE ScanNext(buf, local_idx,
                  ScanLine(buf.lines[local_idx + 1], buf.start_line_number + local_idx,
                           0, matches, query),
                  query)

\* Editor::search: [panic, matches], each match <<line, column>>
Search(e, query) == ScanWindow(e.buffer, 0, <<>>, query)

\* a faulty variant of the loop body of replace_in_chunk: a changed line
\* counts once, whatever the number of occurrences
ReplacedLineOnce(line, new_line, search) ==
    IF new_line # line
    THEN IF Len(new_line) <= MAX_LINE_LENGTH
         THEN [line |-> new_line, count |-> 1]
         ELSE [line |-> Take(new_line, MAX_LINE_LENGTH), count |-> 1]
    ELSE [line |-> line, count |-> 0]

\* the body of the loop of replace_in_chunk for one line: [line, count]
ReplacedLine(line, new_line, search) ==
    IF new_line # line
    THEN IF Len(new_line) <= MAX_LINE_LENGTH
         THEN [line |-> new_line, count |-> MatchCount(line, search)]
         ELSE [line |-> Take(new_line, MAX_LINE_LENGTH), count |-> 1]
    ELSE [line |-> line, count |-> 0]

\* the loop of replace_in_chunk over the lines: [lines, count]
RECURSIVE ReplaceLines(_, _, _)
ReplaceRest(one, rest, search, replace) ==
    [lines |-> <<one.line>> \o rest.lines, count |-> one.count + rest.count]
ReplaceLines(lines, search, replace) ==
    IF lines = <<>> THEN [lines |-> <<>>, count |-> 0]
    ELSE ReplaceRest(ReplacedLine(Head(lines), StrReplace(Head(lines), search, replace),
                                  search),
                     ReplaceLines(Tail(lines), search, replace), search, replace)

\* replace_in_chunk after save_undo_state and the loop
Replaced(u, r) ==
    [e |-> [u EXCEPT !.buffer.lines = r.lines,
                     !.modified = IF r.count > 0 THEN TRUE ELSE @],
     count |-> r.count]

\* Editor::replace_in_chunk: [e, count]
ReplaceInChunk(e, search, replace) ==
    IF search = <<>> THEN [e |-> e, count |-> 0]
    ELSE Replaced(SaveUndoState(e), ReplaceLines(e.buffer.lines, search, replace))

---------------------------------------------------------------------------
(* Key events and the mode handlers *)

Char(c) == [code |-> "Char", ch |-> c, ctrl |-> FALSE]
Ctrl(c) == [code |-> "Char", ch |-> c, ctrl |-> TRUE]
Key(code) == [code |-> code, ch |-> "", ctrl |-> FALSE]

IsChar(key, c) == key.code = "Char" /\ key.ch = c
IsCtrl(key, c) == key.code = "Char" /\ key.ch = c /\ key.ctrl

\* the outcome of a handler: the editor, the file system, and
\* "continue" (Ok(true)), "quit" (Ok(false)), "exit" (process::exit) or "panic"
Outcome(e, fsys, res) == [e |-> e, fs |-> fsys, res |-> res]

\* if let Err(e) = r { status_message = message }, for r = [ok, e, ...]
OrReport(r, message) == IF r.ok THEN r ELSE [r EXCEPT !.e.status_message = message]

\* execute_command past its match: command_buffer.clear(), Ok(())
CommandDone(e, fsys) == [e |-> [e EXCEPT !.command_buffer = <<>>], fs |-> fsys, exit |-> FALSE]

\* the arms of execute_command that save: r is what save_file returned
CommandSaved(r) == CommandDone(OrReport(r, "Error saving").e, r.fs)

\* the "wq" arm of execute_command: r is what save_file returned
CommandSavedQuit(r) ==
    IF r.ok THEN [e |-> r.e, fs |-> r.fs, exit |-> TRUE] ELSE CommandDone(r.e, r.fs)

\* a faulty variant of execute_command: "q" exits whether or not the document
\* is modified
ExecuteCommandQuitAnyway(e, fsys, io) ==
    LET cmd == e.command_buffer
    IN  IF cmd = <<"q">> \/ cmd = <<"q", "!">> THEN [e |-> e, fs |-> fsys, exit |-> TRUE]
        ELSE IF cmd = <<"w">> THEN CommandSaved(SaveFile(e, fsys, io))
        ELSE IF cmd = <<"w", "q">> THEN CommandSavedQuit(SaveFile(e, fsys, io))
        ELSE IF Len(cmd) >= 2 /\ Take(cmd, 2) = <<"w", " ">>
        THEN CommandSaved(SaveFile([e EXCEPT !.filename = Some(Trim(Drop(cmd, 2)))],
                                   fsys, io))
        ELSE CommandDone([e EXCEPT !.status_message = "Unknown command"], fsys)

\* Editor::execute_command: [e, fs, exit]; exit is process::exit(0)
ExecuteCommand(e, fsys, io) ==
    LET cmd == e.command_buffer
    IN  IF cmd = <<"q">>
        THEN IF ~e.modified THEN [e |-> e, fs |-> fsys, exit |-> TRUE]
             ELSE CommandDone([e EXCEPT !.status_message =
                                   "File modified! Use 'q!' to quit without saving"], fsys)
        ELSE IF cmd = <<"q", "!">> THEN [e |-> e, fs |-> fsys, exit |-> TRUE]
        ELSE IF cmd = <<"w">> THEN CommandSaved(SaveFile(e, fsys, io))
        ELSE IF cmd = <<"w", "q">> THEN CommandSavedQuit(SaveFile(e, fsys, io))
        ELSE IF Len(cmd) >= 2 /\ Take(cmd, 2) = <<"w", " ">>
        THEN CommandSaved(SaveFile([e EXCEPT !.filename = Some(Trim(Drop(cmd, 2)))],
                                   fsys, io))
        ELSE CommandDone([e EXCEPT !.status_message = "Unknown command"], fsys)

\* the Ctrl+S arm of handle_normal_mode: r is what save_file returned
NormalSaved(r) ==
    Outcome([(OrReport(r, "Error saving").e) EXCEPT !.quit_requested = FALSE], r.fs,
            "continue")

\* the 'o' arm of handle_normal_mode before insert_newline: the cursor at the
\* end of its line
AtLineEnd(e) ==
    IF Resident(e.buffer, e.cursor.y)
    THEN [e EXCEPT !.cursor.x = Len(GetLine(e.buffer, e.cursor.y))]
    ELSE e

\* Editor::handle_normal_mode
HandleNormalMode(e, key, fsys, io) ==
    LET cont(x) == Outcome(x, fsys, "continue")
    IN  CASE IsCtrl(key, "q") ->
               IF e.modified /\ ~e.quit_requested
               THEN cont([e EXCEPT !.status_message =
                              "File modified! Press Ctrl+Q again to quit without saving",
                                   !.quit_requested = TRUE])
               ELSE Outcome(e, fsys, "quit")
          [] IsCtrl(key, "s") -> NormalSaved(SaveFile(e, fsys, io))
          [] IsChar(key, "i") ->
               cont([e EXCEPT !.mode = "Insert", !.status_message = "-- INSERT --"])
          [] IsChar(key, "a") ->
               cont([(MoveCursor([e EXCEPT !.mode = "Insert"], 1, 0, fsys, io).e) EXCEPT
                         !.status_message = "-- INSERT --"])
          [] IsChar(key, "o") ->
               cont([InsertNewline(AtLineEnd([e EXCEPT !.mode = "Insert"])) EXCEPT
                         !.status_message = "-- INSERT --"])
          [] IsChar(key, ":") ->
               cont([e EXCEPT !.mode = "Command", !.command_buffer = <<>>,
                              !.status_message = "Command mode"])
          [] IsChar(key, "/") ->
               cont([e EXCEPT !.mode = "Search", !.search_query = <<>>,
                              !.status_message = "Search mode"])
          [] IsCtrl(key, "r") ->
               cont([e EXCEPT !.mode = "Replace", !.replace_query = <<>>,
                              !.replace_with = <<>>, !.status_message = "Replace mode"])
          [] IsCtrl(key, "c") -> cont(CopyLine(e))
          [] IsCtrl(key, "x") -> cont(CutLine(e))
          [] IsCtrl(key, "v") -> cont(PasteLine(e))
          [] key.code = "F1" -> cont([e EXCEPT !.status_message = "Help"])
          [] key.code = "Up" -> cont(MoveCursor(e, 0, -1, fsys, io).e)
          [] key.code = "Down" -> cont(MoveCursor(e, 0, 1, fsys, io).e)
          [] key.code = "Left" -> cont(MoveCursor(e, -1, 0, fsys, io).e)
          [] key.code = "Right" -> cont(MoveCursor(e, 1, 0, fsys, io).e)
          [] key.code = "Home" -> cont([e EXCEPT !.cursor.x = 0])
          [] key.code = "End" -> cont(AtLineEnd(e))
          [] key.code = "PageUp" ->
               cont([(MoveCursor(e, 0, 0 - PAGE_LINES, fsys, io).e) EXCEPT
                         !.needs_reload = TRUE])
          [] key.code = "PageDown" ->
               cont([(MoveCursor(e, 0, PAGE_LINES, fsys, io).e) EXCEPT
                         !.needs_reload = TRUE])
          [] key.code = "Esc" ->
               cont([e EXCEPT !.mode = "Normal", !.status_message = "Normal mode",
                              !.quit_requested = FALSE])
          [] OTHER -> cont([e EXCEPT !.quit_requested = FALSE])

\* n times insert_char(c), stopping at an error with the message set: the
\* Char arm of handle_insert_mode (n = 1) and the loop of its Tab arm (n = 4)
RECURSIVE InsertRepeated(_, _, _, _, _, _)
RECURSIVE InsertedOne(_, _, _, _, _, _)
InsertedOne(r, c, n, message, fsys, io) ==
    IF ~r.ok THEN [r.e EXCEPT !.status_message = message]
    ELSE InsertRepeated(r.e, c, n, message, fsys, io)
InsertRepeated(e, c, n, message, fsys, io) ==
    IF n = 0 THEN e
    ELSE InsertedOne(InsertChar(e, c, fsys, io), c, n - 1, message, fsys, io)

\* Editor::handle_insert_mode
HandleInsertMode(e, key, fsys, io) ==
    LET cont(x) == Outcome(x, fsys, "continue")
    IN  CASE key.code = "Esc" ->
               cont([(MoveCursor([e EXCEPT !.mode = "Normal"], -1, 0, fsys, io).e) EXCEPT
                         !.status_message = "Normal mode"])
          [] IsCtrl(key, "s") ->
               Outcome(OrReport(SaveFile(e, fsys, io), "Error saving").e,
                       SaveFile(e, fsys, io).fs, "continue")
          [] key.code = "Char" /\ ~IsCtrl(key, "s") ->
               cont(InsertRepeated(e, key.ch, 1, "Insert error", fsys, io))
          [] key.code = "Enter" -> cont(InsertNewline(e))
          [] key.code = "Backspace" -> cont(DeleteChar(e))
          [] key.code = "Up" -> cont(MoveCursor(e, 0, -1, fsys, io).e)
          [] key.code = "Down" -> cont(MoveCursor(e, 0, 1, fsys, io).e)
          [] key.code = "Left" -> cont(MoveCursor(e, -1, 0, fsys, io).e)
          [] key.code = "Right" -> cont(MoveCursor(e, 1, 0, fsys, io).e)
          [] key.code = "Tab" -> cont(InsertRepeated(e, " ", 4, "Tab insert error", fsys, io))
          [] OTHER -> cont(e)

\* String::push under the length guard of the input buffers
PushLimited(buffer, c) == IF Len(buffer) < INPUT_LIMIT THEN Append(buffer, c) ELSE buffer

\* String::pop
Pop(buffer) == IF buffer = <<>> THEN buffer ELSE Take(buffer, Len(buffer) - 1)

\* the Enter arm of handle_command_mode: r is what execute_command returned
CommandExecuted(r) ==
    IF r.exit THEN Outcome(r.e, r.fs, "exit")
    ELSE Outcome([r.e EXCEPT !.mode = "Normal"], r.fs, "continue")

\* a faulty variant of handle_command_mode: Esc keeps the command buffer
HandleCommandModeKeepingBuffer(e, key, fsys, io) ==
    LET cont(x) == Outcome(x, fsys, "continue")
    IN  CASE key.code = "Esc" ->
               cont([e EXCEPT !.mode = "Normal", !.status_message = "Normal mode"])
          [] key.code = "Enter" -> CommandExecuted(ExecuteCommand(e, fsys, io))
          [] key.code = "Char" ->
               cont([e EXCEPT !.command_buffer = PushLimited(@, key.ch)])
          [] key.code = "Backspace" -> cont([e EXCEPT !.command_buffer = Pop(@)])
          [] OTHER -> cont(e)

\* Editor::handle_command_mode
HandleCommandMode(e, key, fsys, io) ==
    LET cont(x) == Outcome(x, fsys, "continue")
    IN  CASE key.code = "Esc" ->
               cont([e EXCEPT !.mode = "Normal", !.command_buffer = <<>>,
                              !.status_message = "Normal mode"])
          [] key.code = "Enter" -> CommandExecuted(ExecuteCommand(e, fsys, io))
          [] key.code = "Char" ->
               cont([e EXCEPT !.command_buffer = PushLimited(@, key.ch)])
          [] key.code = "Backspace" -> cont([e EXCEPT !.command_buffer = Pop(@)])
          [] OTHER -> cont(e)

\* the Enter arm of handle_search_mode with the mode left alone when nothing
\* was found
SearchedStayingOnMiss(e, fsys, r) ==
    IF r.panic THEN Outcome(e, fsys, "panic")
    ELSE IF r.matches # <<>>
    THEN Outcome([e EXCEPT !.cursor = [x |-> r.matches[1][2], y |-> r.matches[1][1]],
                           !.needs_reload = TRUE,
                           !.status_message = "Found matches in current chunk",
                           !.mode = "Normal"],
                 fsys, "continue")
    ELSE Outcome([e EXCEPT !.status_message = "No matches found in current view"],
                 fsys, "continue")

\* the Enter arm of handle_search_mode: r is what search returned
Searched(e, fsys, r) ==
    IF r.panic THEN Outcome(e, fsys, "panic")
    ELSE IF r.matches # <<>>
    THEN Outcome([e EXCEPT !.cursor = [x |-> r.matches[1][2], y |-> r.matches[1][1]],
                           !.needs_reload = TRUE,
                           !.status_message = "Found matches in current chunk",
                           !.mode = "Normal"],
                 fsys, "continue")
    ELSE Outcome([e EXCEPT !.status_message = "No matches found in current view",
                           !.mode = "Normal"],
                 fsys, "continue")

\* Editor::handle_search_mode
HandleSearchMode(e, key, fsys, io) ==
    LET cont(x) == Outcome(x, fsys, "continue")
    IN  CASE key.code = "Esc" ->
               cont([e EXCEPT !.mode = "Normal", !.search_query = <<>>,
                              !.status_message = "Normal mode"])
          [] key.code = "Enter" -> Searched(e, fsys, Search(e, e.search_query))
          [] key.code = "Char" ->
               cont([e EXCEPT !.search_query = PushLimited(@, key.ch)])
          [] key.code = "Backspace" -> cont([e EXCEPT !.search_query = Pop(@)])
          [] OTHER -> cont(e)

\* status_message.contains("search"), over the messages of the model
ContainsSearch(status) == status = "Enter search term first"

\* Editor::handle_replace_mode
HandleReplaceMode(e, key, fsys, io) ==
    LET cont(x) == Outcome(x, fsys, "continue")
    IN  CASE key.code = "Esc" ->
               cont([e EXCEPT !.mode = "Normal", !.replace_query = <<>>,
                              !.replace_with = <<>>, !.status_message = "Normal mode"])
          [] key.code = "Enter" ->
               IF e.replace_query # <<>>
               THEN cont([(ReplaceInChunk(e, e.replace_query, e.replace_with).e) EXCEPT
                              !.status_message = "Replaced occurrences in current chunk",
                              !.mode = "Normal"])
               ELSE cont([e EXCEPT !.mode = "Normal"])
          [] key.code = "Tab" ->
               cont([e EXCEPT !.status_message =
                        IF e.replace_query = <<>> THEN "Enter search term first"
                                                  ELSE "Enter replacement text:"])
          [] key.code = "Char" ->
               IF e.replace_query = <<>> \/ ContainsSearch(e.status_message)
               THEN cont([e EXCEPT !.replace_query = PushLimited(@, key.ch)])
               ELSE cont([e EXCEPT !.replace_with = PushLimited(@, key.ch)])
          [] key.code = "Backspace" ->
               IF e.replace_with # <<>>
               THEN cont([e EXCEPT !.replace_with = Pop(@)])
               ELSE cont([e EXCEPT !.replace_query = Pop(@)])
          [] OTHER -> cont(e)

---------------------------------------------------------------------------
(* The session: main's construction, and one key event per step *)

\* what the environment does to the file operations of one event
IoOutcomes == {"ok", "read_error", "write_error"}

\* the path given on the command line
ArgPath == <<"f">>

\* sample lines and stores, sized by the window capacity
SampleLine(i) ==
    CASE i % 3 = 1 -> <<"a">>
      [] i % 3 = 2 -> <<"b", "a">>
      [] OTHER -> <<"a", "b">>
SampleLines(n) == [i \in 1..n |-> SampleLine(i)]

\* the stores a session is started on: empty; two lines, the last without a
\* terminator; one line with a terminator; one line longer than the scaled
\* maximum; exactly a window of lines; more than a window
InitialContents ==
    { <<>>,
      <<"a", "\n", "b">>,
      <<"a", "\n">>,
      <<"a", "b", "a", "b">>,
      WriteAllLn(SampleLines(MAX_VISIBLE_LINES)),
      WriteAllLn(SampleLines(MAX_VISIBLE_LINES + 2)) }

\* main after load_file returned r: a failed load only sets the status message
SessionLoaded(r) == OrReport(r, "Error loading file").e

\* main: Editor::new, then load_file if a file was named
StartSession(fsys, arg, io) ==
    IF arg = NoFile THEN NewEditor
    ELSE SessionLoaded(LoadFile(NewEditor, fsys, arg[1], io))

NoKey == [mode |-> "none", key |-> Key("none")]

\* the snapshot before any event: the session as main set it up
LoadSnapshot(e, fsys) == [age |-> 1, mode |-> "none", key |-> Key("load"), e |-> e, fs |-> fsys]
NoSnapshot == [age |-> 0, mode |-> "none", key |-> Key("none"), e |-> NewEditor, fs |-> <<>>]

\* the state before an event, and its absence
Before(e, fsys) == [kept |-> TRUE, e |-> e, fs |-> fsys]
NotKept == [kept |-> FALSE, e |-> NewEditor, fs |-> <<>>]

InitWith(contents) ==
    /\ \E store \in [{ArgPath} -> contents] \cup {<<>>} :
         \E arg \in {NoFile, Some(ArgPath)}, io \in {"ok", "read_error"} :
            /\ (arg = NoFile \/ store = <<>>) => io = "ok"
            /\ arg = NoFile => store = <<>>
            /\ fs = store
            /\ ed = StartSession(store, arg, io)
    /\ run = "running"
    /\ last = NoKey
    /\ snap = LoadSnapshot(ed, fs)
    /\ before = NotKept
    /\ steps = 0

Init == InitWith(InitialContents)

\* the keys of the model, by the mode that receives them; "z" and F1 stand for
\* the keys a handler has no arm for
TextChars == {"a", "b"}
CommandChars == {"q", "w", "!", " ", "g"}
MoveKeys == {Key(c) : c \in {"Up", "Down", "Left", "Right"}}
NormalKeys ==
    MoveKeys \cup {Key(c) : c \in {"Esc", "Home", "End", "PageUp", "PageDown", "F1"}}
             \cup {Ctrl(c) : c \in {"q", "s", "r", "c", "x", "v"}}
             \cup {Char(c) : c \in {"i", "a", "o", ":", "/", "z"}}
InsertKeys ==
    MoveKeys \cup {Key(c) : c \in {"Esc", "Enter", "Backspace", "Tab", "F1"}}
             \cup {Ctrl("s")} \cup {Char(c) : c \in TextChars}
CommandKeys ==
    {Key(c) : c \in {"Esc", "Enter", "Backspace", "F1"}} \cup {Char(c) : c \in CommandChars}
SearchKeys ==
    {Key(c) : c \in {"Esc", "Enter", "Backspace", "F1"}} \cup {Char(c) : c \in TextChars}
ReplaceKeys ==
    {Key(c) : c \in {"Esc", "Enter", "Backspace", "Tab", "F1"}}
        \cup {Char(c) : c \in TextChars}

\* handle_key_event after the reload its needs_reload asked for returned r, with
\* main's handling of the result (an Err only sets the status message)
Reloaded(h, r) ==
    IF ~r.ok
    THEN [e |-> [r.e EXCEPT !.status_message = "Key handling error"], fs |-> h.fs,
          run |-> "running"]
    ELSE [e |-> [r.e EXCEPT !.needs_reload = FALSE], fs |-> h.fs,
          run |-> IF h.res = "quit" THEN "exited" ELSE "running"]

\* Editor::handle_key_event after the throttle and the dispatch on the mode
\* returned h, with main's handling of the result: [e, fs, run]. An event
\* dropped by the throttle changes nothing (a stuttering step)
KeyEventResult(h, io) ==
    IF h.res = "panic" THEN [e |-> h.e, fs |-> h.fs, run |-> "panicked"]
    ELSE IF h.res = "exit" THEN [e |-> h.e, fs |-> h.fs, run |-> "exited"]
    ELSE IF h.e.needs_reload THEN Reloaded(h, ReloadCurrentChunk(h.e, h.fs, io))
    ELSE [e |-> h.e, fs |-> h.fs, run |-> IF h.res = "quit" THEN "exited" ELSE "running"]

\* the events whose pre-state is kept for the event that follows them:
\* a character typed in Insert mode, and the cut key
StartsPair(mode, key) ==
    \/ mode = "Insert" /\ key.code = "Char" /\ ~IsCtrl(key, "s")
    \/ mode = "Normal" /\ IsCtrl(key, "x")

\* the events whose pre-state is kept until the next event: Enter in the
\* Command, Search and Replace modes; a character, Enter or Backspace in
\* Insert mode; a character in Replace mode; the quit, save, cut and paste
\* keys and 'o' in Normal mode; Esc in the other modes; the arrows in Normal
\* and Insert mode, and Home, End, PageUp and PageDown in Normal mode
Tracked(mode, key) ==
    \/ mode \in {"Command", "Search", "Replace"} /\ key = Key("Enter")
    \/ mode = "Insert" /\ key.code \in {"Char", "Enter", "Backspace"}
    \/ mode = "Replace" /\ key.code = "Char"
    \/ mode = "Normal" /\ \E c \in {"q", "s", "x", "v"} : IsCtrl(key, c)
    \/ mode = "Normal" /\ IsChar(key, "o")
    \/ mode # "Normal" /\ key = Key("Esc")
    \/ mode \in {"Normal", "Insert"} /\ key.code \in {"Up", "Down", "Left", "Right"}
    \/ mode = "Normal" /\ key.code \in {"Home", "End", "PageUp", "PageDown"}

\* main's loop body: one key event read and handled, r its result
HandleKeyEvent(key, r) ==
    /\ ed' = r.e
    /\ fs' = r.fs
    /\ run' = r.run
    /\ last' = [mode |-> ed.mode, key |-> key]
    /\ snap' = IF StartsPair(ed.mode, key)
               THEN [age |-> 1, mode |-> ed.mode, key |-> key, e |-> ed, fs |-> fs]
               ELSE IF snap.age = 1 THEN [snap EXCEPT !.age = 2]
               ELSE NoSnapshot
    /\ before' = IF Tracked(ed.mode, key) THEN Before(ed, fs) ELSE NotKept
    /\ steps' = steps + 1

\* the loop goes on while the session runs (and, here, for MaxSteps events)
Running(mode) == run = "running" /\ steps < MaxSteps /\ ed.mode = mode

NormalModeKey ==
    /\ Running("Normal")
    /\ \E key \in NormalKeys, io \in IoOutcomes :
          HandleKeyEvent(key, KeyEventResult(HandleNormalMode(ed, key, fs, io), io))
InsertModeKey ==
    /\ Running("Insert")
    /\ \E key \in InsertKeys, io \in IoOutcomes :
          HandleKeyEvent(key, KeyEventResult(HandleInsertMode(ed, key, fs, io), io))
CommandModeKey ==
    /\ Running("Command")
    /\ \E key \in CommandKeys, io \in IoOutcomes :
          HandleKeyEvent(key, KeyEventResult(HandleCommandMode(ed, key, fs, io), io))
SearchModeKey ==
    /\ Running("Search")
    /\ \E key \in SearchKeys, io \in IoOutcomes :
          HandleKeyEvent(key, KeyEventResult(HandleSearchMode(ed, key, fs, io), io))
ReplaceModeKey ==
    /\ Running("Replace")
    /\ \E key \in ReplaceKeys, io \in IoOutcomes :
          HandleKeyEvent(key, KeyEventResult(HandleReplaceMode(ed, key, fs, io), io))

Next ==
    \/ NormalModeKey
    \/ InsertModeKey
    \/ CommandModeKey
    \/ SearchModeKey
    \/ ReplaceModeKey

Spec == Init /\ [][Next]_vars

---------------------------------------------------------------------------
(* Sessions that went on: the states a fixed run of key events leads to, as  *)
(* further starting points, so that states lying more than MaxSteps events   *)
(* after the start are explored too                                          *)

\* the dispatch of handle_key_event on the mode
HandleInMode(e, key, fsys, io) ==
    CASE e.mode = "Normal" -> HandleNormalMode(e, key, fsys, io)
      [] e.mode = "Insert" -> HandleInsertMode(e, key, fsys, io)
      [] e.mode = "Command" -> HandleCommandMode(e, key, fsys, io)
      [] e.mode = "Search" -> HandleSearchMode(e, key, fsys, io)
      [] OTHER -> HandleReplaceMode(e, key, fsys, io)

\* the session after the key events keys, the store never failing
RECURSIVE AfterKeys(_, _, _)
AfterKey(r, keys) == AfterKeys(r.e, r.fs, keys)
AfterKeys(e, fsys, keys) ==
    IF keys = <<>> THEN [e |-> e, fs |-> fsys]
    ELSE AfterKey(KeyEventResult(HandleInMode(e, Head(keys), fsys, "ok"), "ok"), Tail(keys))

\* End, then the replacement of every "a" of the window by nothing (Ctrl+R, a,
\* Enter), then i: Insert mode with the cursor where the end of its line was
ShrinkUnderCursor == <<Key("End"), Ctrl("r"), Char("a"), Key("Enter"), Char("i")>>

\* PageDown twice, Up, then i: Insert mode with the cursor on the first line
\* of a window that starts below the first line of a document longer than
\* the window
ScrollToWindowStart == <<Key("PageDown"), Key("PageDown"), Key("Up"), Char("i")>>

\* the key events a continued session went through
EditedPrefixes == {ShrinkUnderCursor, ScrollToWindowStart}

\* the stores ShrinkUnderCursor is applied to: two lines, and one line longer
\* than the scaled maximum
ShrunkContents ==
    { <<"a", "\n", "b">>,
      <<"a", "b", "a", "b">> }

\* a session on a loaded store that went through one of EditedPrefixes: the
\* shrinking one on ShrunkContents, the scrolling one on a document longer
\* than the window
InitEdited ==
    /\ \E store \in [{ArgPath} -> InitialContents], keys \in EditedPrefixes :
          /\ keys = ShrinkUnderCursor => store[ArgPath] \in ShrunkContents
          /\ keys = ScrollToWindowStart
                => Len(ReadLines(store[ArgPath])) > MAX_VISIBLE_LINES
          /\ fs = store
          /\ ed = AfterKeys(StartSession(store, Some(ArgPath), "ok"), store, keys).e
    /\ run = "running"
    /\ last = [mode |-> "Normal", key |-> Char("i")]
    /\ snap = NoSnapshot
    /\ before = NotKept
    /\ steps = 0

\* the sessions of Spec, and those that went through one of EditedPrefixes first
InitAny == Init \/ InitEdited
SpecEdited == InitAny /\ [][Next]_vars

---------------------------------------------------------------------------
(* Properties.  Every state of the session with run = "running" is a render  *)
(* point: main draws before it reads the next key event.                     *)

\* the event that led to the current state
LastWas(mode, key) == last = [mode |-> mode, key |-> key]

\* the line under the cursor, when it is resident
CursorLine(e) == GetLine(e.buffer, e.cursor.y)

\* C1: at every render point (initially and after every key event, in any
\* mode, with or without a backing file) the cursor's line is resident:
\* start_line <= cursor.line < start_line + window length.
C1_CursorLineResident ==
    run = "running" => Resident(ed.buffer, ed.cursor.y)

\* C2: after a move of the cursor, from any reachable state, cursor.line is
\* within [0, total_line_count - 1] and the cursor's line is resident.
C2_MoveKeepsCursorInDocument ==
    (run = "running" /\ last.key \in MoveKeys)
        => /\ 0 <= ed.cursor.y
           /\ ed.cursor.y <= ed.buffer.total_lines - 1
           /\ Resident(ed.buffer, ed.cursor.y)

\* C3: total_line_count is at least 1 in every reachable state, the initial
\* state of a session started with or without a file included.
C3_TotalAtLeastOne ==
    ed.buffer.total_lines >= 1

\* C4: in every reachable state 0 <= cursor.line < total_line_count.
C4_CursorLineBelowTotal ==
    0 <= ed.cursor.y /\ ed.cursor.y < ed.buffer.total_lines

\* C5: in every reachable state the cursor column respects the bound of the
\* mode for the cursor's line: at most line.length in Insert mode, at most
\* max(line.length - 1, 0) in every other mode.
C5_ColumnWithinModeBound ==
    (run = "running" /\ Resident(ed.buffer, ed.cursor.y))
        => /\ 0 <= ed.cursor.x
           /\ ed.cursor.x <= IF ed.mode = "Insert" THEN Len(CursorLine(ed))
                             ELSE Max(Len(CursorLine(ed)) - 1, 0)

\* C6: the number of lines held in the window never exceeds the window
\* capacity.
C6_WindowWithinCapacity ==
    Len(ed.buffer.lines) <= MAX_VISIBLE_LINES

\* C6 happens: 'o' on the last line of a window at capacity has inserted a line
\* and evicted one, the window staying at capacity
C6_EvictionHappened ==
    /\ LastWas("Normal", Char("o"))
    /\ Len(ed.buffer.lines) = MAX_VISIBLE_LINES
    /\ ed.cursor.y = ed.buffer.start_line_number + MAX_VISIBLE_LINES
    /\ ed.modified

\* C7: in every reachable state start_line + window length <= total_line_count.
C7_WindowWithinTotal ==
    ed.buffer.start_line_number + Len(ed.buffer.lines) <= ed.buffer.total_lines

\* C7 happens: the only line has been cut, so that remove_line applied its
\* floor of 1 to total_lines and left the window empty
C7_FloorApplied ==
    /\ LastWas("Normal", Ctrl("x"))
    /\ ed.clipboard # <<>>
    /\ ed.buffer.lines = <<>>
    /\ ed.buffer.total_lines = 1

\* the session was started on an existing store that loaded, and its first key
\* event was a save (Ctrl+S) that succeeded: snap holds the session as loaded
LoadedThenSaved ==
    /\ snap.age = 2 /\ snap.key = Key("load")
    /\ LastWas("Normal", Ctrl("s"))
    /\ Exists(snap.fs, ArgPath)
    /\ snap.e.filename = Some(ArgPath)
    /\ ed.status_message = "Saved"

\* C8: for a store with fewer lines than the window capacity (the empty store
\* and stores ending with a line terminator included), load followed by save
\* with no edit in between writes back exactly the original content.
C8_LoadSaveRoundTrip ==
    (LoadedThenSaved /\ Len(ReadLines(snap.fs[ArgPath])) < MAX_VISIBLE_LINES)
        => fs[ArgPath] = snap.fs[ArgPath]

\* a character was typed in Insert mode on a resident line and Backspace was
\* the next key event, with no reload pending: insert_char(c) immediately
\* followed by delete_char; snap holds the state before the insert_char
InsertedThenDeleted ==
    /\ snap.age = 2 /\ snap.mode = "Insert" /\ snap.key.code = "Char"
    /\ LastWas("Insert", Key("Backspace"))
    /\ ~snap.e.needs_reload
    /\ Resident(snap.e.buffer, snap.e.cursor.y)

\* C9 as stated: for any resident cursor line and any column, columns beyond
\* the length and lines at the maximum length included, insert_char(c) followed
\* by delete_char restores the line and the cursor position.
C9_InsertDeleteRestores ==
    InsertedThenDeleted
        => /\ Resident(ed.buffer, snap.e.cursor.y)
           /\ GetLine(ed.buffer, snap.e.cursor.y) = CursorLine(snap.e)
           /\ ed.cursor = snap.e.cursor

\* C9 as amended: for a resident cursor line shorter than the maximum length,
\* insert_char(c) followed by delete_char restores the line, and leaves the
\* cursor on its line at column min(column, line.length).
C9_InsertDeleteRestoresBelowMaximum ==
    (InsertedThenDeleted /\ Len(CursorLine(snap.e)) < MAX_LINE_LENGTH)
        => /\ Resident(ed.buffer, snap.e.cursor.y)
           /\ GetLine(ed.buffer, snap.e.cursor.y) = CursorLine(snap.e)
           /\ ed.cursor = [x |-> Min(snap.e.cursor.x, Len(CursorLine(snap.e))),
                           y |-> snap.e.cursor.y]

\* C9 happens: a character was inserted into and deleted from a non-empty line
\* shorter than the maximum, the cursor column lying beyond the line's length
C9_InsertedAndDeleted ==
    /\ InsertedThenDeleted
    /\ Len(CursorLine(snap.e)) < MAX_LINE_LENGTH
    /\ CursorLine(snap.e) # <<>>
    /\ snap.e.cursor.x > Len(CursorLine(snap.e))
    /\ ed.cursor.x = Len(CursorLine(snap.e))

\* every line of the document is in the window
FullyResident(buf) == buf.start_line_number = 0 /\ Len(buf.lines) = buf.total_lines

\* Ctrl+X on a line of a fully resident document of several lines and Ctrl+V
\* as the next key event, with no reload pending: cut_line immediately
\* followed by paste_line; snap holds the state before the cut_line
CutThenPasted ==
    /\ snap.age = 2 /\ snap.mode = "Normal" /\ snap.key = Ctrl("x")
    /\ LastWas("Normal", Ctrl("v"))
    /\ ~snap.e.needs_reload
    /\ FullyResident(snap.e.buffer)
    /\ Len(snap.e.buffer.lines) >= 2
    /\ Resident(snap.e.buffer, snap.e.cursor.y)

\* the lines q with the entries at 0-based i and j exchanged
Exchanged(q, i, j) ==
    [k \in 1..Len(q) |-> IF k = i + 1 THEN q[j + 1] ELSE IF k = j + 1 THEN q[i + 1] ELSE q[k]]

\* C10 as stated: for a fully resident document of several lines, cut_line at
\* some line immediately followed by paste_line yields the original lines in
\* the original order.
C10_CutPasteKeepsOrder ==
    CutThenPasted => ed.buffer.lines = snap.e.buffer.lines

\* C10 as amended: for a fully resident document of several lines, cut_line at
\* a non-empty line immediately followed by paste_line yields the original
\* lines with the cut line exchanged with the line that followed it; the
\* original order results only when the cut line was the last line.
C10_CutPasteMovesLineDown ==
    (CutThenPasted /\ CursorLine(snap.e) # <<>>)
        => /\ ed.buffer.lines =
                Exchanged(snap.e.buffer.lines, snap.e.cursor.y,
                          Min(snap.e.cursor.y + 1, Len(snap.e.buffer.lines) - 1))
           /\ ed.buffer.total_lines = snap.e.buffer.total_lines

\* C10 happens: a non-empty line that was not the last one was cut and pasted
C10_CutAndPasted ==
    /\ CutThenPasted
    /\ CursorLine(snap.e) # <<>>
    /\ snap.e.cursor.y + 1 < Len(snap.e.buffer.lines)
    /\ ed.clipboard = CursorLine(snap.e)

\* Enter was pressed in Search mode: before holds the state search ran in
SearchEntered == before.kept /\ LastWas("Search", Key("Enter"))

\* <<line, column>> pairs in strictly ascending document order
Ascending(m) ==
    \A k \in 1..(Len(m) - 1) :
        \/ m[k][1] < m[k + 1][1]
        \/ m[k][1] = m[k + 1][1] /\ m[k][2] < m[k + 1][2]

\* C11: search with a non-empty query returns only matches located in resident
\* lines, in strictly ascending (line, column) order, and never more than the
\* match limit (100), whatever the window contains.
C11_SearchOrderedAndCapped ==
    (SearchEntered /\ before.e.search_query # <<>>)
        => LET r == Search(before.e, before.e.search_query)
           IN  /\ ~r.panic
               /\ \A k \in 1..Len(r.matches) :
                     /\ Resident(before.e.buffer, r.matches[k][1])
                     /\ MatchAt(GetLine(before.e.buffer, r.matches[k][1]),
                                r.matches[k][2], before.e.search_query)
               /\ Ascending(r.matches)
               /\ Len(r.matches) <= MATCH_LIMIT

\* C12: search with an empty query returns no match for every window content,
\* so Enter in Search mode with an empty query reports no match, leaves the
\* cursor unchanged and returns to Normal.
C12_EmptyQueryFindsNothing ==
    (SearchEntered /\ before.e.search_query = <<>>)
        => /\ run = "running"
           /\ Search(before.e, <<>>) = [panic |-> FALSE, matches |-> <<>>]
           /\ ed.cursor = before.e.cursor
           /\ ed.mode = "Normal"
           /\ ed.status_message = "No matches found in current view"

\* Enter was pressed in Replace mode with a search term and no reload pending:
\* replace_in_chunk ran on the window of before
ReplaceEntered ==
    /\ before.kept /\ LastWas("Replace", Key("Enter"))
    /\ before.e.replace_query # <<>>
    /\ ~before.e.needs_reload

\* the number of occurrences of pat in s, counted from the left without overlap
RECURSIVE OccurrencesFrom(_, _, _)
OccurrencesFrom(s, pat, i) ==
    IF i + Len(pat) > Len(s) THEN 0
    ELSE IF MatchAt(s, i, pat) THEN 1 + OccurrencesFrom(s, pat, i + Len(pat))
    ELSE OccurrencesFrom(s, pat, i + 1)

\* the occurrences of pat in all of lines
RECURSIVE OccurrencesIn(_, _)
OccurrencesIn(lines, pat) ==
    IF lines = <<>> THEN 0
    ELSE OccurrencesFrom(Head(lines), pat, 0) + OccurrencesIn(Tail(lines), pat)

\* no line of the window of e would exceed the maximum length after the
\* substitution of rep for pat
NoTruncation(e, pat, rep) ==
    \A i \in 1..Len(e.buffer.lines) :
        Len(StrReplace(e.buffer.lines[i], pat, rep)) <= MAX_LINE_LENGTH

\* what C13 says of the replacement that ran on before.e
ReplacedAndCounted ==
    /\ ed.buffer.lines =
          [i \in 1..Len(before.e.buffer.lines) |->
              StrReplace(before.e.buffer.lines[i], before.e.replace_query,
                         before.e.replace_with)]
    /\ ReplaceInChunk(before.e, before.e.replace_query, before.e.replace_with).count
          = OccurrencesIn(before.e.buffer.lines, before.e.replace_query)
    /\ ed.modified =
          (before.e.modified
             \/ ReplaceInChunk(before.e, before.e.replace_query,
                               before.e.replace_with).count > 0)

InsertedOffWindow ==
    /\ before.kept /\ last.mode = "Insert" /\ last.key.code = "Char" /\ ~last.key.ctrl
    /\ ~Resident(before.e.buffer, before.e.cursor.y)
    /\ ed.status_message \notin {"Insert error", "Key handling error"}

\* the window one reload around the cursor of e gives
ReloadedWindow(e, fsys) ==
    LoadChunk(e.buffer, fsys, e.filename[1],
              SatSub(e.cursor.y, MAX_VISIBLE_LINES \div 2), "ok").buf

\* C14: when insert_char(c) is called while the cursor's line is not resident,
\* exactly one reload happens before the character is applied, and afterwards
\* the cursor's line is resident and contains c at offset min(column, previous
\* length), with the column advanced to that offset plus one.
C14_InsertAfterOneReload ==
    InsertedOffWindow
        => /\ before.e.filename # NoFile
           /\ Resident(ed.buffer, before.e.cursor.y)
           /\ Resident(ReloadedWindow(before.e, before.fs), before.e.cursor.y)
           /\ LET old == GetLine(ReloadedWindow(before.e, before.fs), before.e.cursor.y)
                  pos == Min(before.e.cursor.x, Len(old))
              IN  /\ ed.buffer = SetLine(ReloadedWindow(before.e, before.fs),
                                         before.e.cursor.y,
                                         StrInsert(old, pos, last.key.ch))
                  /\ ed.cursor = [x |-> pos + 1, y |-> before.e.cursor.y]

\* Enter was pressed in Command mode with the command cmd in the buffer
CommandEntered(cmd) ==
    before.kept /\ LastWas("Command", Key("Enter")) /\ before.e.command_buffer = cmd

\* C15: no key event in any reachable state is fatal (handle_key_event always
\* returns), and the session ends only through the explicit quit paths: the
\* commands q, q!, wq, or the quit key.
C15_OnlyExplicitQuitEndsSession ==
    /\ run # "panicked"
    /\ run = "exited"
          => \/ LastWas("Normal", Ctrl("q"))
             \/ CommandEntered(<<"q">>)
             \/ CommandEntered(<<"q", "!">>)
             \/ CommandEntered(<<"w", "q">>)

\* C16: whenever the session terminates through wq, the resident lines have
\* been written to the store beforehand and modified is false; if nothing was
\* written (no store reference, or a write error) the session does not
\* terminate.
C16_WqWritesBeforeQuit ==
    (CommandEntered(<<"w", "q">>) /\ run = "exited")
        => /\ before.e.filename # NoFile
           /\ Exists(fs, before.e.filename[1])
           /\ fs[before.e.filename[1]] = SavedContent(before.e.buffer)
           /\ ~ed.modified

\* C17: with the modified flag set, the command q does not terminate the
\* session, and a press of the quit key with quit-requested not armed does not
\* terminate it but arms quit-requested; the quit key terminates only when
\* quit-requested is armed or the document is unmodified.
C17_ModifiedBlocksQuit ==
    /\ (CommandEntered(<<"q">>) /\ before.e.modified)
          => (run = "running" /\ ed.modified /\ ed.mode = "Normal")
    /\ (before.kept /\ LastWas("Normal", Ctrl("q"))
          /\ before.e.modified /\ ~before.e.quit_requested)
          => (run = "running" /\ ed.modified /\ ed.quit_requested)
    /\ (before.kept /\ LastWas("Normal", Ctrl("q")) /\ run = "exited")
          => (~before.e.modified \/ before.e.quit_requested)

\* C17 happens: the command q was refused on a modified document
C17_QuitCommandRefused ==
    /\ CommandEntered(<<"q">>)
    /\ before.e.modified
    /\ run = "running"
    /\ ed.status_message = "File modified! Use 'q!' to quit without saving"

\* a character was typed in Insert mode on a resident line already at the
\* maximum length, no reload pending
InsertAtMaximum ==
    /\ before.kept /\ last.mode = "Insert" /\ last.key.code = "Char" /\ ~last.key.ctrl
    /\ ~before.e.needs_reload
    /\ Resident(before.e.buffer, before.e.cursor.y)
    /\ Len(CursorLine(before.e)) >= MAX_LINE_LENGTH

\* Backspace was pressed in Insert mode at column 0 of a resident line below
\* the first, the line before it resident too and the combined length not
\* under the maximum, no reload pending
JoinAtMaximum ==
    /\ before.kept /\ LastWas("Insert", Key("Backspace"))
    /\ ~before.e.needs_reload
    /\ before.e.cursor.x = 0 /\ before.e.cursor.y > 0
    /\ Resident(before.e.buffer, before.e.cursor.y)
    /\ Resident(before.e.buffer, before.e.cursor.y - 1)
    /\ Len(GetLine(before.e.buffer, before.e.cursor.y - 1)) + Len(CursorLine(before.e))
          >= MAX_LINE_LENGTH

C19_EscAndEntryClearBuffers ==
    /\ (last.key = Key("Esc") /\ last.mode \in {"Insert", "Command", "Search", "Replace"})
          => /\ ed.mode = "Normal"
             /\ last.mode = "Command" => ed.command_buffer = <<>>
             /\ last.mode = "Search" => ed.search_query = <<>>
             /\ last.mode = "Replace" => (ed.replace_query = <<>> /\ ed.replace_with = <<>>)
    /\ LastWas("Normal", Char(":")) => (ed.mode = "Command" /\ ed.command_buffer = <<>>)
    /\ LastWas("Normal", Char("/")) => (ed.mode = "Search" /\ ed.search_query = <<>>)
    /\ LastWas("Normal", Ctrl("r"))
          => (ed.mode = "Replace" /\ ed.replace_query = <<>> /\ ed.replace_with = <<>>)

\* C19 happens: Esc left Command mode with a non-empty command buffer
C19_EscDiscardedCommand ==
    /\ before.kept /\ LastWas("Command", Key("Esc"))
    /\ before.e.command_buffer # <<>>
    /\ ed.command_buffer = <<>>
    /\ ed.mode = "Normal"

\* the lines one per output line, each newline-terminated except the last
RECURSIVE TerminatedExceptLast(_)
TerminatedExceptLast(lines) ==
    IF lines = <<>> THEN <<>>
    ELSE IF Tail(lines) = <<>> THEN lines[1]
    ELSE lines[1] \o <<"\n">> \o TerminatedExceptLast(Tail(lines))

\* C20: save writes all resident lines in order, one per output line, each
\* newline-terminated except the final line, for every document size, the
\* documents whose total_line_count exceeds the window capacity included.
C20_SaveLeavesLastLineUnterminated ==
    (before.kept /\ last.key = Ctrl("s") /\ ed.status_message = "Saved")
        => fs[before.e.filename[1]] = TerminatedExceptLast(before.e.buffer.lines)

\* the modes other than Normal
NonNormalModes == {"Insert", "Command", "Search", "Replace"}

C22_ReloadFlagConsumed ==
    (run = "running" \/ LastWas("Normal", Ctrl("q"))) => ~ed.needs_reload

\* the contents and indices insert_line is tried with on every reachable window
TriedContents == {<<>>, <<"b">>, <<"a", "b", "a", "b">>}
TriedIndices == 0 .. (MAX_VISIBLE_LINES + 3)

\* r is what insert_line(index, content) made of buf, as the claim describes it
InsertLineAsClaimed(buf, index, content, r) ==
    IF buf.start_line_number <= index
          /\ index <= buf.start_line_number + Len(buf.lines)
    THEN LET local == index - buf.start_line_number + 1
         IN  /\ r.total_lines = buf.total_lines + 1
             /\ r.start_line_number = buf.start_line_number
             /\ Len(r.lines) = Min(Len(buf.lines) + 1, MAX_VISIBLE_LINES)
             /\ local <= Len(r.lines)
             /\ r.lines[local] = Truncated(content)
             /\ \A i \in 1 .. Len(r.lines) :
                   /\ i < local => r.lines[i] = buf.lines[i]
                   /\ i > local => r.lines[i] = buf.lines[i - 1]
    ELSE r = buf

\* C23: insert_line(index, content) takes effect exactly when start_line <=
\* index <= start_line + window length: then the content sits at local
\* position index - start_line, total_line_count grows by exactly 1, and a
\* window past capacity loses exactly its last line; for any other index the
\* window and total_line_count are unchanged.
C23_InsertLineEffect ==
    \A index \in TriedIndices, content \in TriedContents :
        InsertLineAsClaimed(ed.buffer, index, content,
                            InsertLine(ed.buffer, index, content))

\* the cut key was pressed on the only line of a single-line document, that
\* line resident and no reload pending
CutOnlyLine ==
    /\ before.kept /\ LastWas("Normal", Ctrl("x"))
    /\ ~before.e.needs_reload
    /\ before.e.buffer.total_lines = 1
    /\ Len(before.e.buffer.lines) = 1
    /\ Resident(before.e.buffer, before.e.cursor.y)

\* C24: cutting the only line of a single-line document leaves a document of
\* exactly one empty line: total_line_count is 1 and the window holds one
\* resident empty line at index 0, with the cursor at (0, 0).
C24_CutOnlyLineLeavesEmptyLine ==
    CutOnlyLine
        => /\ ed.buffer.total_lines = 1
           /\ ed.buffer.start_line_number = 0
           /\ ed.buffer.lines = <<<<>>>>
           /\ ed.cursor = [x |-> 0, y |-> 0]

\* the paste key was pressed in Normal mode, no reload pending
PasteEntered ==
    before.kept /\ LastWas("Normal", Ctrl("v")) /\ ~before.e.needs_reload

\* C25: paste_line with a non-empty clipboard inserts the clipboard as a new
\* line directly after the cursor line and moves the cursor onto it: the line
\* at cursor.line is resident and equals the clipboard, the column is 0,
\* total_line_count grew by 1 and the clipboard is unchanged; with an empty
\* clipboard nothing changes. This in any reachable state, a cursor on the
\* last line of a full window or on a non-resident line included.
C25_PasteInsertsClipboardAfterCursor ==
    /\ (PasteEntered /\ before.e.clipboard # <<>>)
          => /\ ed.cursor = [x |-> 0, y |-> before.e.cursor.y + 1]
             /\ Resident(ed.buffer, ed.cursor.y)
             /\ CursorLine(ed) = before.e.clipboard
             /\ ed.buffer.total_lines = before.e.buffer.total_lines + 1
             /\ ed.clipboard = before.e.clipboard
    /\ (PasteEntered /\ before.e.clipboard = <<>>)
          => /\ ed.buffer = before.e.buffer
             /\ ed.cursor = before.e.cursor
             /\ ed.clipboard = before.e.clipboard
             /\ ed.modified = before.e.modified

\* Enter was pressed in Insert mode on a resident line, no reload pending
NewlineEntered ==
    /\ before.kept /\ LastWas("Insert", Key("Enter"))
    /\ ~before.e.needs_reload
    /\ Resident(before.e.buffer, before.e.cursor.y)

\* buffer b and cursor c are the old buffer a split at line y, column x
SplitAsClaimed(a, y, x, b, c) ==
    LET line == GetLine(a, y)
        local == y - a.start_line_number + 1
    IN  /\ Resident(b, y) /\ GetLine(b, y) = Take(line, Min(x, Len(line)))
        /\ Resident(b, y + 1) /\ GetLine(b, y + 1) = Drop(line, Min(x, Len(line)))
        /\ b.total_lines = a.total_lines + 1
        /\ b.start_line_number = a.start_line_number
        /\ c = [x |-> 0, y |-> y + 1]
        /\ \A i \in 1 .. Len(b.lines) :
              /\ i < local => b.lines[i] = a.lines[i]
              /\ i > local + 1 => b.lines[i] = a.lines[i - 1]

\* C26: insert_newline on a resident line splits it at the column: the line at
\* the old cursor index holds the prefix, the line at the next index holds the
\* suffix, all other lines keep their order, total_line_count grew by 1 and
\* the cursor is at (line+1, 0); also when the cursor is on the last line of a
\* window at capacity.
C26_NewlineSplitsLine ==
    NewlineEntered
        => SplitAsClaimed(before.e.buffer, before.e.cursor.y, before.e.cursor.x,
                          ed.buffer, ed.cursor)

\* Backspace was pressed in Insert mode at column 0 of a line below the
\* first, no reload pending
BackspaceAtLineStart ==
    /\ before.kept /\ LastWas("Insert", Key("Backspace"))
    /\ ~before.e.needs_reload
    /\ before.e.cursor.x = 0 /\ before.e.cursor.y > 0

\* the lines at y - 1 and y of buffer a are resident and short enough to join
Joinable(a, y) ==
    /\ Resident(a, y) /\ Resident(a, y - 1)
    /\ Len(GetLine(a, y - 1)) + Len(GetLine(a, y)) < MAX_LINE_LENGTH

\* buffer b and cursor c are buffer a with line y joined onto line y - 1
JoinAsClaimed(a, y, b, c) ==
    LET local == y - a.start_line_number + 1
    IN  /\ b.total_lines = a.total_lines - 1
        /\ b.start_line_number = a.start_line_number
        /\ Len(b.lines) = Len(a.lines) - 1
        /\ c = [x |-> Len(GetLine(a, y - 1)), y |-> y - 1]
        /\ \A i \in 1 .. Len(b.lines) :
              /\ i < local - 1 => b.lines[i] = a.lines[i]
              /\ i = local - 1 => b.lines[i] = a.lines[i] \o a.lines[i + 1]
              /\ i > local - 1 => b.lines[i] = a.lines[i + 1]

\* C27: delete_char at column 0 of a line > 0, with the current and the
\* previous line resident and the combined length under the maximum, joins
\* them: the previous line becomes previous + current, the current line is
\* removed, total_line_count decreases by 1 and the cursor becomes (line-1,
\* original length of the previous line); when the previous line is not
\* resident, no line content, total_line_count or cursor changes.
C27_BackspaceJoinsLines ==
    /\ (BackspaceAtLineStart /\ Joinable(before.e.buffer, before.e.cursor.y))
          => JoinAsClaimed(before.e.buffer, before.e.cursor.y, ed.buffer, ed.cursor)
    /\ (BackspaceAtLineStart /\ ~Resident(before.e.buffer, before.e.cursor.y - 1))
          => (ed.buffer = before.e.buffer /\ ed.cursor = before.e.cursor)

\* C27 happens: two lines were joined, the previous one not empty
C27_Joined ==
    /\ BackspaceAtLineStart
    /\ Joinable(before.e.buffer, before.e.cursor.y)
    /\ GetLine(before.e.buffer, before.e.cursor.y - 1) # <<>>
    /\ ed.cursor.x > 0
    /\ ed.modified

\* the last event called one of the edit operations (insert_char, delete_char,
\* insert_newline, cut_line, paste_line, replace_in_chunk), no reload pending
EditEntered ==
    /\ before.kept /\ ~before.e.needs_reload
    /\ \/ last.mode = "Insert" /\ last.key.code = "Char" /\ ~last.key.ctrl
       \/ last.mode = "Insert" /\ last.key.code \in {"Enter", "Backspace"}
       \/ last.mode = "Normal" /\ (IsCtrl(last.key, "x") \/ IsCtrl(last.key, "v"))
       \/ LastWas("Normal", Char("o"))
       \/ LastWas("Replace", Key("Enter")) /\ before.e.replace_query # <<>>

\* the undo log is the one before the event with the snapshot s pushed, the
\* oldest snapshot evicted when the log was full
Pushed(s) ==
    /\ Len(before.e.undo_buffer) < UNDO_LIMIT
          => ed.undo_buffer = Append(before.e.undo_buffer, s)
    /\ Len(before.e.undo_buffer) = UNDO_LIMIT
          => ed.undo_buffer = Append(Tail(before.e.undo_buffer), s)

\* the edit changed the content at the index of a resident cursor line
ResidentLineChanged ==
    /\ EditEntered
    /\ Resident(before.e.buffer, before.e.cursor.y)
    /\ \/ ~Resident(ed.buffer, before.e.cursor.y)
       \/ GetLine(ed.buffer, before.e.cursor.y) # CursorLine(before.e)

\* insert_char reloaded the window and then inserted its character
InsertedAfterReload ==
    /\ InsertedOffWindow /\ ~before.e.needs_reload
    /\ before.e.filename # NoFile
    /\ Resident(ReloadedWindow(before.e, before.fs), before.e.cursor.y)
    /\ ed.buffer # ReloadedWindow(before.e, before.fs)

\* C28: every edit operation that changes the content of the cursor's line
\* pushes, before the mutation, an undo snapshot equal to that line's full
\* pre-mutation content, insert_char on its reload-then-retry path included;
\* an operation that touches no resident line pushes none; the undo log never
\* holds more than its capacity, the oldest snapshot being evicted first.
C28_UndoSnapshotBeforeMutation ==
    /\ ResidentLineChanged => Pushed(CursorLine(before.e))
    /\ InsertedAfterReload
          => Pushed(GetLine(ReloadedWindow(before.e, before.fs), before.e.cursor.y))
    /\ (EditEntered /\ ~Resident(before.e.buffer, before.e.cursor.y)
          /\ ~InsertedAfterReload)
          => ed.undo_buffer = before.e.undo_buffer
    /\ Len(ed.undo_buffer) <= UNDO_LIMIT

\* a character was typed in Replace mode
ReplaceCharTyped ==
    before.kept /\ last.mode = "Replace" /\ last.key.code = "Char"

\* C29: Replace mode takes its two inputs in two phases told apart by which
\* buffer is empty: a typed character is appended to the query while the
\* query is empty and to the replacement afterwards, and Enter runs
\* replace_in_chunk with the query and replacement so entered, then returns to
\* Normal.
C29_ReplacePhasesByEmptyBuffer ==
    /\ (ReplaceCharTyped /\ before.e.replace_query = <<>>)
          => /\ ed.replace_query = PushLimited(before.e.replace_query, last.key.ch)
             /\ ed.replace_with = before.e.replace_with
    /\ (ReplaceCharTyped /\ before.e.replace_query # <<>>)
          => /\ ed.replace_with = PushLimited(before.e.replace_with, last.key.ch)
             /\ ed.replace_query = before.e.replace_query
    /\ (ReplaceEntered /\ ~before.e.needs_reload)
          => /\ ed.mode = "Normal"
             /\ ed.buffer = ReplaceInChunk(before.e, before.e.replace_query,
                                           before.e.replace_with).e.buffer

\* the starts load_chunk is tried with, and the paths: those of the store and
\* one that is missing
TriedStarts == 0 .. (MAX_VISIBLE_LINES + 2)
TriedPaths == (DOMAIN fs) \cup {<<"m">>}

\* the start the claim gives for a store of n >= 1 lines
ClampedStart(desired, n) == Min(desired, n - 1)

\* window b has the start, the length and the total the claim gives for the
\* store lines all (or is one empty line for no lines)
ShapedAsClaimed(all, desired, b) ==
    IF all = <<>>
    THEN b = [lines |-> << <<>> >>, start_line_number |-> 0, total_lines |-> 1]
    ELSE /\ b.total_lines = Len(all)
         /\ b.start_line_number = ClampedStart(desired, Len(all))
         /\ Len(b.lines)
               = Min(ClampedStart(desired, Len(all)) + MAX_VISIBLE_LINES, Len(all))
                   - ClampedStart(desired, Len(all))

\* the lines of window b are exactly those of the store from b's start on
FilledExactly(all, b) ==
    all # <<>> => \A i \in 1 .. Len(b.lines) : b.lines[i] = all[b.start_line_number + i]

\* the lines of window b are those of the store from b's start on, each cut
\* to the maximum line length
FilledTruncated(all, b) ==
    all # <<>> =>
        \A i \in 1 .. Len(b.lines) :
            b.lines[i] = Take(all[b.start_line_number + i], MAX_LINE_LENGTH)

\* r is what load_chunk returned for the store lines all: the claim as stated
LoadedExactly(all, desired, r) ==
    r.ok /\ ShapedAsClaimed(all, desired, r.buf) /\ FilledExactly(all, r.buf)

\* r is what load_chunk returned for the store lines all: the claim with the
\* truncation of overlong lines
LoadedTruncated(all, desired, r) ==
    r.ok /\ ShapedAsClaimed(all, desired, r.buf) /\ FilledTruncated(all, r.buf)

\* the lines a store holds; none for a missing store
StoreLines(fsys, path) == IF Exists(fsys, path) THEN ReadLines(fsys[path]) ELSE <<>>

\* PageUp or PageDown was pressed in a session with a file and the reload it
\* asked for succeeded
PageReloaded ==
    /\ (LastWas("Normal", Key("PageDown")) \/ LastWas("Normal", Key("PageUp")))
    /\ run = "running" /\ ~ed.needs_reload
    /\ ed.filename # NoFile

\* the start reload_current_chunk asks load_chunk for
DesiredStart == SatSub(ed.cursor.y, MAX_VISIBLE_LINES \div 2)

\* C30 as stated: load_chunk(store, desired_start) on a store of n >= 1 lines
\* sets total_line_count = n, start_line = min(desired_start, n-1), and fills
\* the window with exactly the store's lines start_line .. min(start_line +
\* capacity, n) - 1 in order, replacing the previous window; a missing or empty
\* store yields one empty line with start_line 0 and total_line_count 1.
\* Stated of every store a session starts with, for every start, and of every
\* window a page key reloaded.
C30_LoadFillsWindowExactly ==
    /\ steps = 0 =>
          \A path \in TriedPaths, desired \in TriedStarts :
              LoadedExactly(StoreLines(fs, path), desired,
                            LoadChunk(ed.buffer, fs, path, desired, "ok"))
    /\ PageReloaded =>
          LoadedExactly(StoreLines(fs, ed.filename[1]), DesiredStart,
                        [ok |-> TRUE, buf |-> ed.buffer])

\* C30 amended: the same, with each line of the window being the store's line
\* cut to the maximum line length.
C30_LoadFillsWindowTruncated ==
    /\ steps = 0 =>
          \A path \in TriedPaths, desired \in TriedStarts :
              LoadedTruncated(StoreLines(fs, path), desired,
                              LoadChunk(ed.buffer, fs, path, desired, "ok"))
    /\ PageReloaded =>
          LoadedTruncated(StoreLines(fs, ed.filename[1]), DesiredStart,
                        [ok |-> TRUE, buf |-> ed.buffer])

\* C30 happens: PageUp or PageDown reloaded the window from a store whose
\* first loaded line is longer than the maximum, and the window holds it cut
C30_ReloadedOverlongLine ==
    /\ PageReloaded
    /\ StoreLines(fs, ed.filename[1]) # <<>>
    /\ ed.buffer.lines # <<>>
    /\ Len(StoreLines(fs, ed.filename[1])[ed.buffer.start_line_number + 1])
          > MAX_LINE_LENGTH
    /\ ed.buffer.lines[1]
          = Take(StoreLines(fs, ed.filename[1])[ed.buffer.start_line_number + 1],
                 MAX_LINE_LENGTH)

\* the last event was a cursor-movement key (arrows in Normal or Insert mode,
\* Home, End, PageUp, PageDown in Normal mode) or Enter in Search mode, and
\* the session went on
Navigated ==
    /\ before.kept /\ run = "running"
    /\ \/ last.mode \in {"Normal", "Insert"} /\ last.key \in MoveKeys
       \/ last.mode = "Normal"
            /\ last.key \in {Key(c) : c \in {"Home", "End", "PageUp", "PageDown"}}
       \/ LastWas("Search", Key("Enter"))

\* every line index resident in both buffers holds the same content in both
SameWhereResident(a, b) ==
    \A i \in 1 .. Len(a.lines) :
        Resident(b, a.start_line_number + i - 1)
            => GetLine(b, a.start_line_number + i - 1) = a.lines[i]

\* C31: navigation never discards unsaved edits: a cursor-movement key or the
\* Enter key of Search mode changes no document text: every line index
\* resident both before and after the event has the same content, and
\* total_line_count is unchanged, also when the window holds unsaved edits.
C31_NavigationKeepsText ==
    Navigated
        => /\ SameWhereResident(before.e.buffer, ed.buffer)
           /\ ed.buffer.total_lines = before.e.buffer.total_lines

\* C33: quit arming does not survive other input: every key event other than
\* the quit key disarms quit-requested, so that, the document modified, the
\* quit key terminates the session only right after the quit key that armed
\* it.
C33_OtherInputDisarmsQuit ==
    /\ (steps > 0 /\ run = "running" /\ ~LastWas("Normal", Ctrl("q")))
          => ~ed.quit_requested
    /\ (before.kept /\ LastWas("Normal", Ctrl("q")) /\ run = "exited"
          /\ before.e.modified)
          => before.e.quit_requested

\* a page key was pressed with no reload pending and the cursor's target line
\* resident, and the reload it asked for failed with an I/O error
PageReloadFailed ==
    /\ before.kept /\ ~before.e.needs_reload
    /\ (LastWas("Normal", Key("PageDown")) \/ LastWas("Normal", Key("PageUp")))
    /\ Resident(before.e.buffer, ed.cursor.y)
    /\ ed.needs_reload

\* C34: a failed load is aborted without effect: when load_chunk (directly or
\* through a reload) fails with an I/O error other than a missing store, the
\* window's lines, start_line and total_line_count are those from before the
\* call, the mode is unchanged and the session keeps processing key events.
C34_FailedLoadHasNoEffect ==
    /\ PageReloadFailed
          => /\ ed.buffer = before.e.buffer
             /\ ed.mode = before.e.mode
             /\ run = "running"
    /\ \A path \in DOMAIN fs :
          LoadChunk(ed.buffer, fs, path, 0, "read_error").buf = ed.buffer

\* the window of e holds what a load from its start gives for the store of
\* its file, or that store holds what a save of the window writes
WindowMatchesStore(e, fsys) ==
    \/ e.buffer.lines
          = LoadChunk(e.buffer, fsys, e.filename[1], e.buffer.start_line_number,
                      "ok").buf.lines
    \/ Exists(fsys, e.filename[1]) /\ fsys[e.filename[1]] = SavedContent(e.buffer)

\* C32: the modified flag never hides unsaved edits: where modified is false
\* the window's lines are those of the most recent successful load or reload,
\* or those the most recent successful save wrote (stated of the sessions
\* still on the file they were started with, whose store only their saves
\* change); an edit operation that changes the window sets modified, and only
\* a save that wrote clears it.
C32_ModifiedNeverHidesEdits ==
    /\ (~ed.modified /\ ed.filename = Some(ArgPath)) => WindowMatchesStore(ed, fs)
    /\ (~ed.modified /\ ed.filename = NoFile) => ed.buffer.lines = <<>>
    /\ (EditEntered /\ Resident(before.e.buffer, before.e.cursor.y)
          /\ ed.buffer # before.e.buffer)
          => ed.modified
    /\ (before.kept /\ before.e.modified /\ ~ed.modified)
          => /\ ed.filename # NoFile
             /\ Exists(fs, ed.filename[1])
             /\ fs[ed.filename[1]] = SavedContent(before.e.buffer)

===========================================================================
